---- MODULE Spec2Model ----
(***************************************************************************)
(* neoiq-node-foundation: the Fastify observability plugin (request        *)
(* lifecycle hooks and the AsyncLocalStorage request context), the         *)
(* telemetry bootstrap (init, logger) and the outbound HTTP client         *)
(* (request/response interceptors, axios-retry configuration, opossum      *)
(* circuit breaker construction).                                          *)
(*                                                                         *)
(* An asynchronous execution chain (an inbound request's hooks, handler    *)
(* and continuations, or code running outside every request) is a "task".  *)
(* JavaScript runs each callback to completion, so every hook, interceptor *)
(* and continuation is one atomic action; tasks interleave between them.   *)
(***************************************************************************)
EXTENDS Integers, Sequences, FiniteSets, TLC

\* ------------------------------------------------------------------ bounds

\* Calls the background task may make through the client (client specification).
MaxCalls == 11

\* Nesting depth of runWithContext, and calls made inside or outside those
\* scopes (context specification).
MaxDepth == 2
MaxScopeCalls == 2

\* retry.retries passed to createHttpClient in the lifecycle specification.
LifecycleRetries == 1

\* Milliseconds the clock may advance (completion specification).
MaxTime == 2

\* createHttpClient calls made after the first one (registry specification).
MaxClients == 2

\* Calls of init and of shutdown in one process (bootstrap specification).
MaxInitCalls == 3
MaxShutdownCalls == 2

\* ------------------------------------------------------- program constants

DefaultRetries == 3
DefaultRetryDelay == 1000
DefaultRetryStatusCodes == {408, 429, 500, 502, 503, 504}
VolumeThreshold == 10
DefaultErrorThresholdPercentage == 50
DefaultExcludeRoutes == { <<"/health">>, <<"/health", "/">> }

\* ------------------------------------------------------------- identifiers

Reqs == {"A", "B"}
BG == "bg"
\* Service names of the downstream targets clients are created for.
ServiceNames == {"auth-service", "data-fetcher"}
Tasks == Reqs \cup {BG}

Undefined == "undefined"
InvalidId == "00000000"

\* crypto.randomUUID(): a fresh identifier for each request that needs one.
randomUUID(r) == "uuid-" \o r

\* Identifiers the trace SDK assigns.
FreshTraceId(r) == "trace-" \o r
ServerSpanId(r) == "httpspan-" \o r
PluginSpanId(r) == "span-" \o r

\* Inbound header values the framework may deliver for request r.
XRequestIdsOf(r) == {Undefined, IF r = "A" THEN "req-1" ELSE "req-2"}
NoTraceparent == [traceId |-> Undefined, spanId |-> Undefined]
Traceparents == {NoTraceparent, [traceId |-> "T1", spanId |-> "S1"]}
\* URLs as sequences of path pieces, so that startsWith is a prefix test.
Urls == { <<"/health">>, <<"/api", "/reports">> }
ReplyStatuses == {200, 404}

\* What the downstream target may answer to one network attempt: an HTTP
\* status, or no response at all (network error, timeout).
NoResponse == 0
Statuses == {200, 400, 404, 408, 429, 500, 501, 502, 503, 504, 505}
Outcomes == Statuses \cup {NoResponse}
LifecycleOutcomes == {200, 404, 503, NoResponse}
ScopeOutcomes == {200, 503}

\* ------------------------------------------------------------------- state

VARIABLES
  initialized,   \* part_005: let initialized
  logLevel,      \* part_005: pino level of baseLogger
  opts,          \* HttpClientOptions the client was created with
  targetMode,    \* how the downstream target behaves ("any" | "always503")
  req,           \* per inbound request: framework request/reply objects
  span,          \* per inbound request: the span the plugin started
  store,         \* per task: AsyncLocalStorage store of the execution chain
  active,        \* per task: span of the OpenTelemetry active context
  logs,          \* per task: log lines written while the task ran
  call,          \* per task: the outbound client call of the task
  clientCalls,   \* calls settled through the returned client
  breaker,       \* the opossum CircuitBreaker built in createHttpClient
  scopes,        \* per task: stores saved by the als.run calls still open
  serverMetrics, \* per inbound request: samples added to the server instruments
  now,           \* Date.now(), in milliseconds since start-up
  events,        \* per inbound request: side effects of onResponse, in order
  clients,       \* clients returned by createHttpClient, in creation order
  boot           \* part_005: sdk, meterProvider, serviceName; init and shutdown calls

vars == <<initialized, logLevel, opts, targetMode, req, span, store, active,
          logs, call, clientCalls, breaker, scopes, serverMetrics, now, events,
          clients, boot>>

\* ----------------------------------------------------------------- helpers

\* JavaScript falsiness of a string-or-undefined value, and a || b, a ?? b.
Falsy(x) == x \in {Undefined, ""}
Or(a, b) == IF Falsy(a) THEN b ELSE a
\* An optional option is the empty set (undefined) or a singleton; a ?? d.
Nullish(a, d) == IF a = {} THEN d ELSE CHOOSE x \in a : TRUE

RECURSIVE Pow2(_)
Pow2(n) == IF n <= 0 THEN 1 ELSE 2 * Pow2(n - 1)

\* String.prototype.startsWith on URLs.
startsWith(url, prefix) ==
  /\ Len(prefix) <= Len(url)
  /\ SubSeq(url, 1, Len(prefix)) = prefix

NoCtx == [correlationId |-> Undefined, traceId |-> Undefined, spanId |-> Undefined]
NoSpanCtx == [traceId |-> Undefined, spanId |-> Undefined]
NoSpan == [opened |-> FALSE, traceId |-> Undefined, spanId |-> Undefined,
           status |-> "unset", message |-> Undefined, exceptions |-> 0, ended |-> 0,
           attributes |-> {}]

IdleReq == [phase |-> "idle", url |-> <<>>, xRequestId |-> Undefined,
            traceparent |-> NoTraceparent, ctx |-> NoCtx, hasCtx |-> FALSE,
            hasSpan |-> FALSE, replyXRequestId |-> Undefined, statusCode |-> 200,
            handlerLogged |-> FALSE, handlerCalled |-> FALSE,
            requestDone |-> 0, responseDone |-> 0, errorDone |-> 0,
            completed |-> 0, failed |-> 0, terminal |-> "none",
            error |-> Undefined, method |-> "GET", startTime |-> 0]

\* Samples one request added to http.server.requests.total,
\* http.server.request.duration and http.server.requests.errors.
NoSamples == [requests |-> 0, durations |-> 0, errors |-> 0, labels |-> {}]

NoCall == [phase |-> "none", attempts |-> 0, retryCount |-> 0, delays |-> <<>>,
           status |-> NoResponse, traceparent |-> NoSpanCtx, xRequestId |-> Undefined,
           firstXRequestId |-> Undefined, metrics |-> NoSamples]

\* ------------------------------------------------------------------ logger

LevelRank(l) == CASE l = "debug" -> 1 [] l = "info" -> 2 [] l = "warn" -> 3 [] OTHER -> 4

IdKeys == {"correlationId", "traceId", "spanId"}
EmptyObj == [k \in {} |-> Undefined]

\* AsyncLocalStorage.getStore(): the store of the calling execution chain.
alsGetStore_processWide(t) ==
  IF \E u \in Tasks \ {t} : store[u] # NoCtx
  THEN store[CHOOSE u \in Tasks \ {t} : store[u] # NoCtx]
  ELSE store[t]

alsGetStore(t) == store[t]

getRequestContext_fallback(t) ==
  IF alsGetStore(t) = NoCtx
  THEN [NoCtx EXCEPT !.correlationId = randomUUID(t)]
  ELSE alsGetStore(t)

getRequestContext_lostAfterSuspend(t) ==
  IF call[t].retryCount > 0 THEN NoCtx ELSE alsGetStore(t)

getRequestContext(t) == alsGetStore(t)

\* The context a caller passes to the runWithContext call at nesting depth d.
ScopeCtx(d) ==
  [correlationId |-> "ctx-" \o ToString(d), traceId |-> Undefined,
   spanId |-> Undefined]

alsRunExit_enterWith(t) == store[t]

\* AsyncLocalStorage.run(store, fn) gives the execution chain its previous
\* store back when fn has returned.
alsRunExit(t) == scopes[t][Len(scopes[t])]

\* runWithContext(ctx, fn) up to the call of fn: als.run installs ctx for the
\* extent of fn. A call the task made before is settled and dropped.
runWithContext(t, ctx) ==
  /\ Len(scopes[t]) < MaxDepth
  /\ t \in Reqs => req[t].phase = "handling"
  /\ call[t].phase \in {"none", "resolved", "rejected"}
  /\ scopes' = [scopes EXCEPT ![t] = Append(@, alsGetStore(t))]
  /\ store' = [store EXCEPT ![t] = ctx]
  /\ call' = [call EXCEPT ![t] = NoCall]
  /\ UNCHANGED <<initialized, logLevel, opts, targetMode, req, span, active,
                 logs, clientCalls, breaker, serverMetrics, now, events, clients, boot>>

\* fn has returned (everything it awaited is settled): runWithContext returns.
runWithContextReturn(t) ==
  /\ scopes[t] # <<>>
  /\ call[t].phase \in {"none", "resolved", "rejected"}
  /\ store' = [store EXCEPT ![t] = alsRunExit(t)]
  /\ scopes' = [scopes EXCEPT ![t] = SubSeq(@, 1, Len(@) - 1)]
  /\ call' = [call EXCEPT ![t] = NoCall]
  /\ UNCHANGED <<initialized, logLevel, opts, targetMode, req, span, active,
                 logs, clientCalls, breaker, serverMetrics, now, events, clients, boot>>

\* trace.getActiveSpan()?.spanContext() of the calling execution chain.
getActiveSpan(t) == active[t]

\* The pino mixin: ids taken from the active span, else from the store.
mixin(ctx, act) ==
  [traceId |-> Or(act.traceId, ctx.traceId),
   spanId |-> Or(act.spanId, ctx.spanId),
   correlationId |-> ctx.correlationId]

\* pino merges the logged object over the mixin (Object.assign(mixin, obj)).
LogLine(level, msg, obj, ctx, act) ==
  [level |-> level, msg |-> msg] @@
  [k \in IdKeys |-> IF k \in DOMAIN obj THEN obj[k] ELSE mixin(ctx, act)[k]]

\* logger.<level>(obj, msg): baseLogger?.<level>(obj, msg). Nothing is written
\* before init, nor below the configured level.
loggerWrite(lg, t, level, msg, obj, ctx, act) ==
  IF initialized /\ LevelRank(level) >= LevelRank(logLevel)
  THEN [lg EXCEPT ![t] = @ \cup {LogLine(level, msg, obj, ctx, act)}]
  ELSE lg

\* ---------------------------------------------------------------- bootstrap

\* init(options): starts the SDK (propagator, context manager, tracer
\* provider, HTTP auto-instrumentation) and builds the pino logger.
alreadyInitialized_never == FALSE

\* if (initialized) { console.warn(...); return; }
alreadyInitialized == initialized

\* The module state of part_005 when the module has been loaded.
NotBooted ==
  [serviceName |-> "unknown", sdkStarts |-> 0, meterProviders |-> 0,
   initCalls |-> 0, shutdownCalls |-> 0, meterProviderShutdowns |-> 0,
   sdkShutdowns |-> 0, shutdownPromise |-> "none", console |-> "none"]

init(svcName, level) ==
  /\ boot.initCalls < MaxInitCalls
  /\ IF alreadyInitialized
     THEN /\ boot' = [boot EXCEPT !.initCalls = @ + 1,
                                  !.console = "Already initialized, skipping"]
          /\ UNCHANGED <<initialized, logLevel, logs>>
     ELSE /\ boot' = [boot EXCEPT !.initCalls = @ + 1,
                                  !.serviceName = svcName,
                                  !.meterProviders = @ + 1,
                                  !.sdkStarts = @ + 1]
          /\ initialized' = TRUE
          /\ logLevel' = Or(level, "info")
          /\ logs' = [logs EXCEPT ![BG] = @ \cup
                {LogLine("info", "OpenTelemetry initialized", EmptyObj,
                         alsGetStore(BG), getActiveSpan(BG))}]
  /\ UNCHANGED <<opts, targetMode, req, span, store, active, call, clientCalls,
                 breaker, scopes, serverMetrics, now, events, clients>>

catchError_rethrown(failed) == IF failed THEN "rejected" ELSE "resolved"

\* try { ... } catch (error) { console.error(...) }: the promise of shutdown
\* resolves whether or not a provider's shutdown failed.
catchError(failed) == "resolved"

\* shutdown(): nothing before init; otherwise meterProvider.shutdown(), then
\* sdk.shutdown(), either of which may reject; a rejection of the first one
\* skips the second.
shutdown(meterProviderFails, sdkFails) ==
  /\ boot.shutdownCalls < MaxShutdownCalls
  /\ IF ~initialized
     THEN boot' = [boot EXCEPT !.shutdownCalls = @ + 1,
                               !.shutdownPromise = "resolved"]
     ELSE LET failed == meterProviderFails \/ sdkFails
          IN boot' = [boot EXCEPT
               !.shutdownCalls = @ + 1,
               !.meterProviderShutdowns = @ + 1,
               !.sdkShutdowns = IF meterProviderFails THEN @ ELSE @ + 1,
               !.console = IF failed THEN "Error during shutdown"
                           ELSE "OTEL shutdown complete",
               !.shutdownPromise = catchError(failed)]
  /\ UNCHANGED <<initialized, logLevel, opts, targetMode, req, span, store,
                 active, logs, call, clientCalls, breaker, scopes,
                 serverMetrics, now, events, clients>>

\* ------------------------------------------------------------ the framework

\* The framework accepts inbound request r. In an initialized process the
\* SDK's HTTP auto-instrumentation has made a server span active for the
\* request's execution chain, continuing the inbound traceparent if any.
arrive(r, url, xRequestId, traceparent) ==
  /\ req[r].phase = "idle"
  /\ req' = [req EXCEPT ![r].phase = "arrived", ![r].url = url,
                        ![r].xRequestId = xRequestId,
                        ![r].traceparent = traceparent]
  /\ active' = [active EXCEPT ![r] =
        IF initialized
        THEN [traceId |-> Or(traceparent.traceId, FreshTraceId(r)),
              spanId |-> ServerSpanId(r)]
        ELSE NoSpanCtx]
  /\ UNCHANGED <<initialized, logLevel, opts, targetMode, span, store, logs,
                 call, clientCalls, breaker, scopes,
                 serverMetrics, now, events, clients, boot>>

\* ---------------------------------------------------------------- the plugin

done_twice(n) == n + 2

\* done(): the hook hands control back to the framework; n counts the calls
\* one hook made for one request.
done(n) == n + 1

excluded_never(url) == FALSE

excluded(url) == \E route \in DefaultExcludeRoutes : startsWith(url, route)

\* propagation.extract(context.active(), request.headers): the W3C propagator
\* is registered by init; without it the context comes back unchanged.
extract(act, traceparent) ==
  IF initialized /\ ~Falsy(traceparent.traceId) THEN traceparent ELSE act

\* tracer.startSpan(name, options, parentContext): a recording span in the
\* parent's trace (a new trace without parent); a non-recording span with the
\* invalid span context while no tracer provider is registered.
startSpan(r, parent) ==
  IF initialized
  THEN [NoSpan EXCEPT !.opened = TRUE,
                      !.traceId = Or(parent.traceId, FreshTraceId(r)),
                      !.spanId = PluginSpanId(r)]
  ELSE [NoSpan EXCEPT !.opened = TRUE,
                      !.traceId = Or(parent.traceId, InvalidId),
                      !.spanId = Or(parent.spanId, InvalidId)]

extractCorrelationId_generated(r) == randomUUID(r)

extractCorrelationId_nullish(r) ==
  IF req[r].xRequestId = Undefined THEN randomUUID(r) ELSE req[r].xRequestId

\* (request.headers['x-request-id'] as string) || randomUUID()
extractCorrelationId(r) == Or(req[r].xRequestId, randomUUID(r))

onRequest(r) ==
  /\ req[r].phase = "arrived"
  /\ IF excluded(req[r].url)
     THEN /\ req' = [req EXCEPT ![r].phase = "handling", ![r].requestDone = done(@)]
          /\ UNCHANGED <<span, store, logs>>
     ELSE LET correlationId == extractCorrelationId(r)
              parentContext == extract(getActiveSpan(r), req[r].traceparent)
              sp == startSpan(r, parentContext)
              ctx == [correlationId |-> correlationId, traceId |-> sp.traceId,
                      spanId |-> sp.spanId]
          IN /\ span' = [span EXCEPT ![r] = sp]
             /\ store' = [store EXCEPT ![r] = ctx]
             /\ logs' = loggerWrite(logs, r, "info", "Request received", ctx,
                                    ctx, getActiveSpan(r))
             /\ req' = [req EXCEPT ![r].phase = "handling",
                                   ![r].replyXRequestId = correlationId,
                                   ![r].hasSpan = TRUE,
                                   ![r].hasCtx = TRUE,
                                   ![r].ctx = ctx,
                                   ![r].startTime = now,
                                   ![r].requestDone = done(@)]
  /\ UNCHANGED <<initialized, logLevel, opts, targetMode, active, call,
                 clientCalls, breaker, scopes,
                 serverMetrics, now, events, clients, boot>>

\* Span.setStatus, Span.setAttribute and Span.end of the trace SDK: setStatus
\* replaces the status as a whole, and an ended span ignores later changes.
setStatus(sp, code, message) ==
  IF sp.ended > 0 THEN sp ELSE [sp EXCEPT !.status = code, !.message = message]

setAttribute(sp, key, value) ==
  IF sp.ended > 0 THEN sp
  ELSE [sp EXCEPT !.attributes = {a \in @ : a[1] # key} \cup {<<key, value>>}]

spanEnd(sp) == [sp EXCEPT !.ended = @ + 1]

\* const durationMs = Date.now() - ctx.startTime
durationMs(startTime) == now - startTime

\* The labels of the samples onResponse records.
labels(r) ==
  [method |-> req[r].method, route |-> req[r].url,
   status_code |-> ToString(req[r].statusCode)]

spanStatusCode_serverErrors(statusCode) ==
  IF statusCode < 500 THEN "ok" ELSE "error"

\* code: reply.statusCode < 400 ? SpanStatusCode.OK : SpanStatusCode.ERROR
spanStatusCode(statusCode) == IF statusCode < 400 THEN "ok" ELSE "error"

countsAsError_serverErrors(statusCode) == statusCode >= 500

\* if (reply.statusCode >= 400) requestErrors.add(1, labels)
countsAsError(statusCode) == statusCode >= 400

onResponseEffects_endFirst(hasSpan, statusCode, duration) ==
  (IF hasSpan THEN << <<"span.end", 0>> >> ELSE <<>>)
  \o << <<"logger.info", duration>>,
        <<"requestCounter.add", 1>>,
        <<"requestDuration.record", duration>> >>
  \o (IF countsAsError(statusCode) THEN << <<"requestErrors.add", 1>> >> ELSE <<>>)
  \o (IF hasSpan
      THEN << <<"span.setStatus", spanStatusCode(statusCode)>>,
              <<"span.setAttribute:http.status_code", statusCode>>,
              <<"span.setAttribute:http.response_time_ms", duration>> >>
      ELSE <<>>)

\* The side effects of onResponse for a request with a context, in the order
\* of its statements, each with the value it is given.
onResponseEffects(hasSpan, statusCode, duration) ==
  << <<"logger.info", duration>>,
     <<"requestCounter.add", 1>>,
     <<"requestDuration.record", duration>> >>
  \o (IF countsAsError(statusCode) THEN << <<"requestErrors.add", 1>> >> ELSE <<>>)
  \o (IF hasSpan
      THEN << <<"span.setStatus", spanStatusCode(statusCode)>>,
              <<"span.setAttribute:http.status_code", statusCode>>,
              <<"span.setAttribute:http.response_time_ms", duration>>,
              <<"span.end", 0>> >>
      ELSE <<>>)

\* One side effect applied to the request's span.
spanEffect(sp, e) ==
  CASE e[1] = "span.setStatus" -> setStatus(sp, e[2], Undefined)
    [] e[1] = "span.setAttribute:http.status_code" ->
         setAttribute(sp, "http.status_code", e[2])
    [] e[1] = "span.setAttribute:http.response_time_ms" ->
         setAttribute(sp, "http.response_time_ms", e[2])
    [] e[1] = "span.end" -> spanEnd(sp)
    [] OTHER -> sp

RECURSIVE spanEffects(_, _)
spanEffects(sp, es) ==
  IF es = <<>> THEN sp ELSE spanEffects(spanEffect(sp, Head(es)), Tail(es))

\* How many of the side effects es are calls of the named instrument.
Calls(es, name) == Cardinality({i \in DOMAIN es : es[i][1] = name})

hasContext_always(r) == TRUE

\* if (!ctx) { done(); return; } at the top of onResponse and onError.
hasContext(r) == req[r].hasCtx

\* const ctx = request.__requestContext, in onResponse and onError.
requestContext_lastInstalled(r) ==
  IF \E u \in Reqs \ {r} : req[u].hasCtx
  THEN [ctx |-> req[CHOOSE u \in Reqs \ {r} : req[u].hasCtx].ctx,
        startTime |-> req[CHOOSE u \in Reqs \ {r} : req[u].hasCtx].startTime]
  ELSE [ctx |-> req[r].ctx, startTime |-> req[r].startTime]

requestContext(r) == [ctx |-> req[r].ctx, startTime |-> req[r].startTime]

onResponse(r) ==
  /\ req[r].phase = "replying"
  /\ IF ~hasContext(r)
     THEN /\ req' = [req EXCEPT ![r].phase = "done", ![r].responseDone = done(@),
                                ![r].terminal = "onResponse"]
          /\ UNCHANGED <<span, logs, serverMetrics, events>>
     ELSE LET ctx == requestContext(r).ctx
              duration == durationMs(requestContext(r).startTime)
              effects == onResponseEffects(req[r].hasSpan, req[r].statusCode,
                                           duration)
          IN /\ events' = [events EXCEPT ![r] = @ \o effects]
             /\ logs' = loggerWrite(logs, r, "info", "Request completed", ctx,
                                    ctx, getActiveSpan(r))
             /\ serverMetrics' = [serverMetrics EXCEPT
                   ![r].requests = @ + Calls(effects, "requestCounter.add"),
                   ![r].durations = @ + Calls(effects, "requestDuration.record"),
                   ![r].errors = @ + Calls(effects, "requestErrors.add"),
                   ![r].labels = @ \cup {labels(r)}]
             /\ span' = [span EXCEPT ![r] = spanEffects(@, effects)]
             /\ req' = [req EXCEPT ![r].phase = "done",
                                   ![r].completed = @ + 1,
                                   ![r].responseDone = done(@),
                                   ![r].terminal = "onResponse"]
  /\ UNCHANGED <<initialized, logLevel, opts, targetMode, store, active, call,
                 clientCalls, breaker, scopes, now, clients, boot>>

onError_replies(r) ==
  /\ req[r].phase = "erroring"
  /\ logs' = IF req[r].hasCtx
             THEN loggerWrite(logs, r, "error", "Request failed", req[r].ctx,
                              req[r].ctx, getActiveSpan(r))
             ELSE logs
  /\ span' = [span EXCEPT ![r] =
        IF req[r].hasCtx /\ req[r].hasSpan
        THEN [@ EXCEPT !.status = "error", !.message = req[r].error,
                       !.exceptions = @ + 1]
        ELSE @]
  /\ req' = [req EXCEPT ![r].phase = "errored",
                        ![r].statusCode = 500,
                        ![r].failed = IF req[r].hasCtx THEN @ + 1 ELSE @,
                        ![r].errorDone = done(@),
                        ![r].terminal = "onError"]
  /\ UNCHANGED <<initialized, logLevel, opts, targetMode, store, active, call,
                 clientCalls, breaker, scopes, serverMetrics, now, events, clients, boot>>

onError(r) ==
  /\ req[r].phase = "erroring"
  /\ IF ~hasContext(r)
     THEN /\ req' = [req EXCEPT ![r].phase = "errored", ![r].errorDone = done(@),
                                ![r].terminal = "onError"]
          /\ UNCHANGED <<span, logs>>
     ELSE LET ctx == requestContext(r).ctx
          IN /\ logs' = loggerWrite(logs, r, "error", "Request failed", ctx,
                                    ctx, getActiveSpan(r))
             /\ span' = [span EXCEPT ![r] =
                   IF req[r].hasSpan
                   THEN [@ EXCEPT !.status = "error", !.message = req[r].error,
                                  !.exceptions = @ + 1]
                   ELSE @]
             /\ req' = [req EXCEPT ![r].phase = "errored",
                                   ![r].failed = @ + 1,
                                   ![r].errorDone = done(@),
                                   ![r].terminal = "onError"]
  /\ UNCHANGED <<initialized, logLevel, opts, targetMode, store, active, call,
                 clientCalls, breaker, scopes,
                 serverMetrics, now, events, clients, boot>>

\* ------------------------------------------------------------ route handler

\* The handler of an instrumented route logs through the foundation logger
\* (the /health handler only returns its status).
handlerLog(r) ==
  /\ req[r].phase = "handling"
  /\ ~excluded(req[r].url)
  /\ ~req[r].handlerLogged
  /\ req' = [req EXCEPT ![r].handlerLogged = TRUE]
  /\ logs' = loggerWrite(logs, r, "info", "Fetching report", EmptyObj,
                         alsGetStore(r), getActiveSpan(r))
  /\ UNCHANGED <<initialized, logLevel, opts, targetMode, span, store, active,
                 call, clientCalls, breaker, scopes,
                 serverMetrics, now, events, clients, boot>>

handlerCall_beforeHook(r) ==
  /\ req[r].phase \in {"arrived", "handling"}
  /\ ~excluded(req[r].url)
  /\ ~req[r].handlerCalled
  /\ call[r].phase = "none"
  /\ req' = [req EXCEPT ![r].handlerCalled = TRUE]
  /\ call' = [call EXCEPT ![r] = [NoCall EXCEPT !.phase = "ready"]]
  /\ UNCHANGED <<initialized, logLevel, opts, targetMode, span, store, active,
                 logs, clientCalls, breaker, scopes,
                 serverMetrics, now, events, clients, boot>>

\* The handler of an instrumented route calls a downstream service:
\* await client.get(...).
handlerCall(r) ==
  /\ req[r].phase = "handling"
  /\ ~excluded(req[r].url)
  /\ ~req[r].handlerCalled
  /\ call[r].phase = "none"
  /\ req' = [req EXCEPT ![r].handlerCalled = TRUE]
  /\ call' = [call EXCEPT ![r] = [NoCall EXCEPT !.phase = "ready"]]
  /\ UNCHANGED <<initialized, logLevel, opts, targetMode, span, store, active,
                 logs, clientCalls, breaker, scopes,
                 serverMetrics, now, events, clients, boot>>

CallSettled(t) == call[t].phase \in {"none", "resolved", "rejected"}

\* The handler returns (or sends) a reply with some status code; the
\* awaited call, if any, has settled and its promise is dropped.
handlerReturn(r, statusCode) ==
  /\ req[r].phase = "handling"
  /\ CallSettled(r)
  /\ req' = [req EXCEPT ![r].phase = "replying", ![r].statusCode = statusCode]
  /\ call' = [call EXCEPT ![r] = NoCall]
  /\ UNCHANGED <<initialized, logLevel, opts, targetMode, span, store, active,
                 logs, clientCalls, breaker, scopes,
                 serverMetrics, now, events, clients, boot>>

\* The handler raises an error: the framework runs the onError hooks.
handlerThrow(r) ==
  /\ req[r].phase = "handling"
  /\ CallSettled(r)
  /\ req' = [req EXCEPT ![r].phase = "erroring", ![r].error = "boom"]
  /\ call' = [call EXCEPT ![r] = NoCall]
  /\ UNCHANGED <<initialized, logLevel, opts, targetMode, span, store, active,
                 logs, clientCalls, breaker, scopes,
                 serverMetrics, now, events, clients, boot>>

\* Fastify sends the error reply after the onError hooks; the onResponse
\* hooks run once it is sent.
errorReply(r) ==
  /\ req[r].phase = "errored"
  /\ req' = [req EXCEPT ![r].phase = "replying", ![r].statusCode = 500]
  /\ UNCHANGED <<initialized, logLevel, opts, targetMode, span, store, active,
                 logs, call, clientCalls, breaker, scopes,
                 serverMetrics, now, events, clients, boot>>

\* The framework contract of the lifecycle interceptor: the error hook is a
\* terminal call, no completion hook follows it.
errorTerminal(r) ==
  /\ req[r].phase = "errored"
  /\ req' = [req EXCEPT ![r].phase = "done"]
  /\ UNCHANGED <<initialized, logLevel, opts, targetMode, span, store, active,
                 logs, call, clientCalls, breaker, scopes,
                 serverMetrics, now, events, clients, boot>>

\* --------------------------------------------------------------- the client

retries_asAttemptCount == Nullish(opts.retries, DefaultRetries) - 1

retries_oneMore == Nullish(opts.retries, DefaultRetries) + 1

\* retries: retry.retries ?? 3, the number of retries axios-retry may make
\* after the first attempt.
retries == Nullish(opts.retries, DefaultRetries)

retryDelay_linear(retryCount) ==
  retryCount * Nullish(opts.retryDelay, DefaultRetryDelay)

\* baseDelay * Math.pow(2, retryCount - 1)
retryDelay(retryCount) ==
  Nullish(opts.retryDelay, DefaultRetryDelay) * Pow2(retryCount - 1)

retryCondition_all5xx(status) ==
  status = NoResponse \/ status >= 500

\* !error.response || retryStatusCodes.includes(status || 0)
retryCondition(status) ==
  \/ status = NoResponse
  \/ status \in Nullish(opts.retryStatusCodes, DefaultRetryStatusCodes)

IsSuccess_anyResponse(outcome) == outcome # NoResponse

\* axios validateStatus: a 2xx response resolves, anything else rejects.
IsSuccess(outcome) == outcome >= 200 /\ outcome < 300

inject_emptyCarrier(t) == NoSpanCtx

\* propagation.inject(context.active(), carrier): the W3C propagator writes
\* traceparent from the span of the active context; without a registered
\* propagator or without an active span the carrier stays empty.
inject(t) ==
  IF initialized /\ ~Falsy(getActiveSpan(t).traceId)
  THEN getActiveSpan(t)
  ELSE NoSpanCtx

\* Code outside every request calls through the client.
backgroundCall ==
  /\ CallSettled(BG)
  /\ clientCalls.total < MaxCalls
  /\ call' = [call EXCEPT ![BG] = [NoCall EXCEPT !.phase = "ready"]]
  /\ UNCHANGED <<initialized, logLevel, opts, targetMode, req, span, store,
                 active, logs, clientCalls, breaker, scopes,
                 serverMetrics, now, events, clients, boot>>

\* The request interceptor runs for the first attempt and, when the backoff
\* timer fires and axios-retry re-issues the request, for every retry.
requestInterceptor(t) ==
  /\ call[t].phase \in {"ready", "backoff"}
  /\ LET carrier == inject(t)
         reqCtx == getRequestContext(t)
     IN /\ call' = [call EXCEPT
              ![t].phase = "inflight",
              ![t].attempts = @ + 1,
              ![t].status = NoResponse,
              ![t].traceparent = IF ~Falsy(carrier.traceId) THEN carrier ELSE @,
              ![t].xRequestId = IF ~Falsy(reqCtx.correlationId)
                                THEN reqCtx.correlationId ELSE @,
              ![t].firstXRequestId = IF call[t].attempts = 0
                                     THEN reqCtx.correlationId ELSE @]
        /\ logs' = loggerWrite(logs, t, "debug", "Outbound HTTP request",
                               [correlationId |-> reqCtx.correlationId],
                               alsGetStore(t), getActiveSpan(t))
  /\ UNCHANGED <<initialized, logLevel, opts, targetMode, req, span, store,
                 active, clientCalls, breaker, scopes,
                 serverMetrics, now, events, clients, boot>>

PromiseReject_returned == "resolved"

\* return Promise.reject(error): the error interceptor hands the failure on,
\* so the promise of the attempt stays rejected.
PromiseReject == "rejected"

\* The error a rejected call surfaces to its caller: the AxiosError of the
\* last attempt, carrying its response status (0 without response).
rejection(t) ==
  IF call[t].phase = "rejected"
  THEN [kind |-> "AxiosError", status |-> call[t].status]
  ELSE [kind |-> Undefined, status |-> NoResponse]

\* The error opossum rejects fire() with while the breaker is open.
CircuitOpenKind == "EOPENBREAKER"

attemptSamples_finalOnly(m, outcome, retried) ==
  IF retried THEN m
  ELSE [m EXCEPT !.requests = @ + 1,
                 !.durations = @ + 1,
                 !.errors = IF IsSuccess(outcome) THEN @ ELSE @ + 1]

\* The samples the response interceptors add to http.client.requests.total,
\* http.client.request.duration and http.client.requests.errors for one
\* attempt, whether or not axios-retry goes on to retry it.
attemptSamples(m, outcome, retried) ==
  [m EXCEPT !.requests = @ + 1,
            !.durations = @ + 1,
            !.errors = IF IsSuccess(outcome) THEN @ ELSE @ + 1]

\* The target answers the attempt in flight. The response interceptor logs
\* it; on a failure axios-retry, registered after it, either schedules the
\* next attempt (onRetry, backoff timer) or lets the rejection through.
responseInterceptor(t, outcome) ==
  /\ call[t].phase = "inflight"
  /\ targetMode = "always503" => outcome = 503
  /\ LET reqCtx == getRequestContext(t)
         obj == [correlationId |-> reqCtx.correlationId]
     IN IF IsSuccess(outcome)
        THEN /\ logs' = loggerWrite(logs, t, "debug", "Outbound HTTP response",
                                    obj, alsGetStore(t), getActiveSpan(t))
             /\ call' = [call EXCEPT
                   ![t].phase = "resolved", ![t].status = outcome,
                   ![t].metrics = attemptSamples(@, outcome, FALSE)]
             /\ clientCalls' = [clientCalls EXCEPT !.total = @ + 1]
        ELSE LET lg == loggerWrite(logs, t, "error", "Outbound HTTP error",
                                   obj, alsGetStore(t), getActiveSpan(t))
             IN IF call[t].retryCount < retries /\ retryCondition(outcome)
                THEN /\ logs' = [lg EXCEPT ![t] =
                           loggerWrite(lg, t, "warn", "Retrying HTTP request",
                                       EmptyObj, alsGetStore(t), getActiveSpan(t))[t]]
                     /\ call' = [call EXCEPT
                           ![t].phase = "backoff",
                           ![t].status = outcome,
                           ![t].retryCount = @ + 1,
                           ![t].delays = Append(@, retryDelay(call[t].retryCount + 1)),
                           ![t].metrics = attemptSamples(@, outcome, TRUE)]
                     /\ UNCHANGED clientCalls
                ELSE /\ logs' = lg
                     /\ call' = [call EXCEPT
                           ![t].phase = PromiseReject,
                           ![t].status = outcome,
                           ![t].metrics = attemptSamples(@, outcome, FALSE)]
                     /\ clientCalls' = [clientCalls EXCEPT !.total = @ + 1,
                                                           !.failed = @ + 1]
  /\ UNCHANGED <<initialized, logLevel, opts, targetMode, req, span, store,
                 active, breaker, scopes,
                 serverMetrics, now, events, clients, boot>>

createBreaker_open(o) ==
  [exists |-> o.enabled # {FALSE},
   state |-> "open",
   fires |-> 0,
   failures |-> 0,
   errorThresholdPercentage |->
     Nullish(o.errorThresholdPercentage, DefaultErrorThresholdPercentage),
   volumeThreshold |-> VolumeThreshold]

\* createHttpClient(options): the breaker is constructed around
\* client.request unless circuitBreaker.enabled is false; the function
\* returns the axios client itself.
createBreaker(o) ==
  [exists |-> o.enabled # {FALSE},
   state |-> "closed",
   fires |-> 0,
   failures |-> 0,
   errorThresholdPercentage |->
     Nullish(o.errorThresholdPercentage, DefaultErrorThresholdPercentage),
   volumeThreshold |-> VolumeThreshold]

\* The client a createHttpClient call returns, the n-th of the process: its
\* breaker is a local of that call, a new CircuitBreaker each time.
newClient(serviceName, o, n) ==
  [serviceName |-> serviceName, breakerId |-> n, breaker |-> createBreaker(o)]

createHttpClient(serviceName) ==
  /\ Len(clients) < 1 + MaxClients
  /\ clients' = Append(clients, newClient(serviceName, opts, Len(clients) + 1))
  /\ UNCHANGED <<initialized, logLevel, opts, targetMode, req, span, store,
                 active, logs, call, clientCalls, breaker, scopes,
                 serverMetrics, now, events, boot>>

\* Time passes between two steps of the program.
tick ==
  /\ now < MaxTime
  /\ now' = now + 1
  /\ UNCHANGED <<initialized, logLevel, opts, targetMode, req, span, store,
                 active, logs, call, clientCalls, breaker, scopes,
                 serverMetrics, events, clients, boot>>

\* ------------------------------------------------------- telemetry failures

loggerMayThrow_always == TRUE

\* logger.<level>(obj, msg) is baseLogger?.<level>(obj, msg): before init
\* baseLogger is undefined and the call evaluates to undefined; only the
\* pino logger built by init can throw.
loggerMayThrow == initialized

\* onResponse when logger.info throws inside the als.run callback: nothing
\* in the hook catches it, so the metrics, span.end() and done() after it
\* are not reached. The reply is already sent; the framework catches the
\* exception of the hook and the request is over.
onResponseThrows(r) ==
  /\ loggerMayThrow
  /\ req[r].phase = "replying"
  /\ req[r].hasCtx
  /\ req' = [req EXCEPT ![r].phase = "done", ![r].terminal = "onResponse"]
  /\ UNCHANGED <<initialized, logLevel, opts, targetMode, span, store, active,
                 logs, call, clientCalls, breaker, scopes, serverMetrics, now, events, clients, boot>>

\* The request interceptor when logger.debug throws: it does not return the
\* config, the request is never dispatched, and the thrown error (which has
\* no config, so axios-retry hands it on) passes the error interceptor and
\* rejects the caller's promise.
requestInterceptorThrows(t) ==
  /\ loggerMayThrow
  /\ call[t].phase \in {"ready", "backoff"}
  /\ call' = [call EXCEPT ![t].phase = PromiseReject, ![t].status = NoResponse,
                          ![t].metrics = attemptSamples(@, NoResponse, FALSE)]
  /\ logs' = loggerWrite(logs, t, "error", "Outbound HTTP error",
                         [correlationId |-> getRequestContext(t).correlationId],
                         alsGetStore(t), getActiveSpan(t))
  /\ clientCalls' = [clientCalls EXCEPT !.total = @ + 1, !.failed = @ + 1]
  /\ UNCHANGED <<initialized, logLevel, opts, targetMode, req, span, store,
                 active, breaker, scopes, serverMetrics, now, events, clients, boot>>

\* The success interceptor when logger.debug throws: the response of the
\* target is dropped and the caller's promise rejects with the thrown error.
responseInterceptorThrows(t, outcome) ==
  /\ loggerMayThrow
  /\ call[t].phase = "inflight"
  /\ IsSuccess(outcome)
  /\ call' = [call EXCEPT ![t].phase = PromiseReject, ![t].status = outcome]
  /\ clientCalls' = [clientCalls EXCEPT !.total = @ + 1, !.failed = @ + 1]
  /\ UNCHANGED <<initialized, logLevel, opts, targetMode, req, span, store,
                 active, logs, breaker, scopes, serverMetrics, now, events, clients, boot>>

\* ----------------------------------------------------------- specifications

LifecycleOptions ==
  [retries |-> {LifecycleRetries}, retryDelay |-> {}, retryStatusCodes |-> {},
   enabled |-> {}, errorThresholdPercentage |-> {}]

ClientOptions ==
  [retries : {{}, {0}, {3}}, retryDelay : {{}, {250}}, retryStatusCodes : {{}},
   enabled : {{}, {FALSE}}, errorThresholdPercentage : {{}}]

InitWith(o, mode) ==
  /\ initialized = FALSE
  /\ logLevel = "info"
  /\ opts = o
  /\ targetMode = mode
  /\ req = [r \in Reqs |-> IdleReq]
  /\ span = [r \in Reqs |-> NoSpan]
  /\ store = [t \in Tasks |-> NoCtx]
  /\ active = [t \in Tasks |-> NoSpanCtx]
  /\ logs = [t \in Tasks |-> {}]
  /\ call = [t \in Tasks |-> NoCall]
  /\ clientCalls = [total |-> 0, failed |-> 0]
  /\ breaker = createBreaker(o)
  /\ scopes = [t \in Tasks |-> <<>>]
  /\ serverMetrics = [r \in Reqs |-> NoSamples]
  /\ now = 0
  /\ events = [r \in Reqs |-> <<>>]
  /\ clients = <<newClient("auth-service", o, 1)>>
  /\ boot = NotBooted

\* init is called first thing at application start-up, if at all.
AtStartup ==
  /\ ~initialized
  /\ \A r \in Reqs : req[r].phase = "idle"
  /\ \A t \in Tasks : call[t].phase = "none"
  /\ clientCalls.total = 0

Init == InitWith(LifecycleOptions, "any")

Next ==
  \/ \E level \in {Undefined} : AtStartup /\ init("canvas-weaver", level)
  \/ \E r \in Reqs, url \in Urls, tp \in Traceparents :
       \E x \in XRequestIdsOf(r) : arrive(r, url, x, tp)
  \/ \E r \in Reqs : onRequest(r)
  \/ \E r \in Reqs : handlerLog(r)
  \/ \E r \in Reqs : handlerCall(r)
  \/ \E r \in Reqs : requestInterceptor(r)
  \/ \E r \in Reqs, o \in LifecycleOutcomes : responseInterceptor(r, o)
  \/ \E r \in Reqs, s \in ReplyStatuses : handlerReturn(r, s)
  \/ \E r \in Reqs : handlerThrow(r)
  \/ \E r \in Reqs : onError(r)
  \/ \E r \in Reqs : errorReply(r)
  \/ \E r \in Reqs : errorTerminal(r)
  \/ \E r \in Reqs : onResponse(r)

Spec == Init /\ [][Next]_vars

InitClient ==
  \E o \in ClientOptions, mode \in {"any", "always503"} : InitWith(o, mode)

NextClient ==
  \/ \E level \in {Undefined, "debug"} : AtStartup /\ init("canvas-weaver", level)
  \/ backgroundCall
  \/ requestInterceptor(BG)
  \/ \E o \in Outcomes : responseInterceptor(BG, o)

SpecClient == InitClient /\ [][NextClient]_vars

\* Code inside and outside runWithContext scopes, in the background and in
\* the handler of a request, beside the request lifecycle.
InitContext == InitWith(LifecycleOptions, "any")

NextContext ==
  \/ \E level \in {Undefined, "debug"} : AtStartup /\ init("canvas-weaver", level)
  \/ \E url \in Urls, x \in XRequestIdsOf("A") :
       arrive("A", url, x, NoTraceparent)
  \/ onRequest("A")
  \/ \E t \in {"A", BG} : runWithContext(t, ScopeCtx(Len(scopes[t]) + 1))
  \/ \E t \in {"A", BG} : runWithContextReturn(t)
  \/ clientCalls.total < MaxScopeCalls /\ backgroundCall
  \/ requestInterceptor(BG)
  \/ \E o \in ScopeOutcomes : responseInterceptor(BG, o)
  \/ \E st \in ReplyStatuses : scopes["A"] = <<>> /\ handlerReturn("A", st)
  \/ onResponse("A")

SpecContext == InitContext /\ [][NextContext]_vars

\* One request and background calls in a process whose logger may throw.
InitFaults == InitWith(LifecycleOptions, "any")

NextFaults ==
  \/ \E level \in {Undefined, "debug"} : AtStartup /\ init("canvas-weaver", level)
  \/ \E url \in Urls, x \in XRequestIdsOf("A") :
       arrive("A", url, x, NoTraceparent)
  \/ onRequest("A")
  \/ \E st \in ReplyStatuses : handlerReturn("A", st)
  \/ onResponse("A")
  \/ onResponseThrows("A")
  \/ clientCalls.total < MaxScopeCalls /\ backgroundCall
  \/ requestInterceptor(BG)
  \/ requestInterceptorThrows(BG)
  \/ \E o \in LifecycleOutcomes : responseInterceptor(BG, o)
  \/ \E o \in LifecycleOutcomes : responseInterceptorThrows(BG, o)

SpecFaults == InitFaults /\ [][NextFaults]_vars

\* Completion specification: two requests on the framework's reply paths
\* while the clock advances; no outbound calls.
InitCompletion == InitWith(LifecycleOptions, "any")

NextCompletion ==
  \/ \E level \in {Undefined} : AtStartup /\ init("canvas-weaver", level)
  \/ tick
  \/ \E r \in Reqs, url \in Urls : \E x \in XRequestIdsOf(r) :
       arrive(r, url, x, NoTraceparent)
  \/ \E r \in Reqs : onRequest(r)
  \/ \E r \in Reqs, st \in ReplyStatuses : handlerReturn(r, st)
  \/ \E r \in Reqs : handlerThrow(r)
  \/ \E r \in Reqs : onError(r)
  \/ \E r \in Reqs : errorReply(r)
  \/ \E r \in Reqs : onResponse(r)

SpecCompletion == InitCompletion /\ [][NextCompletion]_vars

\* Registry specification: further clients are created, and calls are made
\* through the first one.
InitRegistry == InitWith(LifecycleOptions, "any")

NextRegistry ==
  \/ \E level \in {Undefined} : AtStartup /\ init("canvas-weaver", level)
  \/ \E serviceName \in ServiceNames : createHttpClient(serviceName)
  \/ clientCalls.total < MaxScopeCalls /\ backgroundCall
  \/ requestInterceptor(BG)
  \/ \E o \in ScopeOutcomes : responseInterceptor(BG, o)

SpecRegistry == InitRegistry /\ [][NextRegistry]_vars

\* Probe specification: a burst of volumeThreshold background calls, then
\* the handlers of two requests call the same target concurrently.
InitProbe == InitWith(LifecycleOptions, "any")

NextProbe ==
  \/ \E level \in {Undefined} : AtStartup /\ init("canvas-weaver", level)
  \/ clientCalls.total < VolumeThreshold /\ backgroundCall
  \/ \E t \in Tasks : requestInterceptor(t)
  \/ \E t \in Tasks, o \in ScopeOutcomes : responseInterceptor(t, o)
  \/ \E r \in Reqs : arrive(r, <<"/api", "/reports">>, Undefined, NoTraceparent)
  \/ \E r \in Reqs : onRequest(r)
  \/ \E r \in Reqs : clientCalls.total >= VolumeThreshold /\ handlerCall(r)
  \/ \E r \in Reqs : handlerReturn(r, 200)
  \/ \E r \in Reqs : onResponse(r)

SpecProbe == InitProbe /\ [][NextProbe]_vars

\* Retry specification: a few calls through the client, with the progress
\* the client guarantees: the backoff timer of axios-retry fires and
\* re-issues the request, and every attempt is answered or times out.
InitRetry == InitClient

NextRetry ==
  \/ \E level \in {Undefined, "debug"} : AtStartup /\ init("canvas-weaver", level)
  \/ clientCalls.total < MaxScopeCalls /\ backgroundCall
  \/ requestInterceptor(BG)
  \/ \E o \in Outcomes : responseInterceptor(BG, o)

SpecRetry ==
  /\ InitRetry
  /\ [][NextRetry]_vars
  /\ WF_vars(requestInterceptor(BG))
  /\ WF_vars(\E o \in Outcomes : responseInterceptor(BG, o))

\* Bootstrap specification: init and shutdown are called any number of
\* times, in any order, around calls made through the client.
InitBootstrap == InitWith(LifecycleOptions, "any")

NextBootstrap ==
  \/ \E svcName \in {"canvas-weaver", "report-service"} :
       \E level \in {Undefined, "debug"} : init(svcName, level)
  \/ \E meterProviderFails, sdkFails \in BOOLEAN :
       shutdown(meterProviderFails, sdkFails)
  \/ clientCalls.total < MaxScopeCalls /\ backgroundCall
  \/ requestInterceptor(BG)
  \/ \E o \in ScopeOutcomes : responseInterceptor(BG, o)

SpecBootstrap == InitBootstrap /\ [][NextBootstrap]_vars

\* Correlation specification: two requests whose x-request-id header is
\* absent, empty or set pass the hooks.
InitCorrelation == InitWith(LifecycleOptions, "any")

NextCorrelation ==
  \/ \E level \in {Undefined} : AtStartup /\ init("canvas-weaver", level)
  \/ \E r \in Reqs, url \in Urls : \E x \in XRequestIdsOf(r) \cup {""} :
       arrive(r, url, x, NoTraceparent)
  \/ \E r \in Reqs : onRequest(r)
  \/ \E r \in Reqs : handlerLog(r)
  \/ \E r \in Reqs, st \in ReplyStatuses : handlerReturn(r, st)
  \/ \E r \in Reqs : onResponse(r)

SpecCorrelation == InitCorrelation /\ [][NextCorrelation]_vars





\* ------------------------------------------------------------------ claims

\* The correlation id of request r: the inbound x-request-id, else the
\* identifier generated for r.
CorrelationIdOf(r) ==
  IF req[r].xRequestId \in {Undefined, ""} THEN "uuid-" \o r ELSE req[r].xRequestId

Instrumented(r) == req[r].phase # "idle" /\ req[r].url = <<"/api", "/reports">>

\* C1: context isolation. Every log line written while a non-excluded request
\* is handled (lifecycle hooks, handler, outbound attempts, retries after the
\* backoff timer) carries that request's correlation id and never the
\* distinct correlation id of the other request, under every interleaving.
C1_ContextIsolation ==
  \A a \in Reqs : Instrumented(a) =>
    \A l \in logs[a] :
      /\ l.correlationId = CorrelationIdOf(a)
      /\ \A b \in Reqs \ {a} :
           (Instrumented(b) /\ CorrelationIdOf(b) # CorrelationIdOf(a))
             => l.correlationId # CorrelationIdOf(b)

\* Both requests are between two attempts of their outbound calls at the same
\* time, each having logged from its handler and from the retry logic.
C1_Witness ==
  \A r \in Reqs :
    /\ Instrumented(r)
    /\ call[r].phase = "backoff"
    /\ \E l \in logs[r] : l.msg = "Fetching report"
    /\ \E l \in logs[r] : l.msg = "Retrying HTTP request"

\* C2: span closure. For every finished inbound request exactly one terminal
\* lifecycle hook was processed, and a span opened in onRequest was ended
\* exactly once.
C2_SpanClosure ==
  \A r \in Reqs : req[r].phase = "done" =>
    /\ req[r].responseDone + req[r].errorDone = 1
    /\ req[r].hasSpan => span[r].ended = 1

\* C3: completion and failure are mutually exclusive. No request has both
\* the 'Request completed' and the 'Request failed' event, and a request whose
\* terminal hook was the failure hook has its span ended exactly once.
C3_CompletionXorFailure ==
  \A r \in Reqs :
    /\ ~(req[r].completed > 0 /\ req[r].failed > 0)
    /\ (req[r].phase = "done" /\ req[r].terminal = "onError" /\ req[r].hasSpan)
         => span[r].ended = 1

\* C4 as stated: for a non-excluded inbound request with traceparent trace id
\* T1 and x-request-id req-1, every outbound attempt sent during its handling
\* carries a traceparent with trace id T1 and x-request-id req-1.
RoundTripCase(r) ==
  /\ Instrumented(r)
  /\ req[r].traceparent.traceId = "T1"
  /\ req[r].xRequestId = "req-1"
  /\ call[r].attempts > 0

C4_HeaderRoundTrip_Original ==
  \A r \in Reqs : RoundTripCase(r) =>
    /\ call[r].traceparent.traceId = "T1"
    /\ call[r].xRequestId = "req-1"

\* C4 amended: the same, in a process whose init() completed before the
\* request arrived; in every process the attempts carry x-request-id req-1.
C4_HeaderRoundTrip ==
  \A r \in Reqs : RoundTripCase(r) =>
    /\ call[r].xRequestId = "req-1"
    /\ initialized => call[r].traceparent.traceId = "T1"

\* The second attempt of such a call is in flight in an initialized process.
C4_Witness ==
  \E r \in Reqs :
    /\ RoundTripCase(r)
    /\ initialized
    /\ call[r].phase = "inflight"
    /\ call[r].attempts = 2

\* C5 as stated: with retry.retries = 3, a call against a target that always
\* answers 503 is rejected after exactly 3 network attempts.
ExhaustionCase ==
  /\ targetMode = "always503"
  /\ opts.retries = {3}
  /\ call[BG].phase = "rejected"

C5_RetryExhaustion_Original ==
  ExhaustionCase => call[BG].attempts = 3

\* C5 amended: with retry.retries = 3, a call against a target that always
\* answers 503 makes exactly 4 network attempts (the first and 3 retries) and
\* is then rejected with the last 503; it never makes a fifth.
C5_RetryExhaustion ==
  /\ ExhaustionCase =>
       /\ call[BG].attempts = 4
       /\ call[BG].retryCount = 3
       /\ call[BG].status = 503
  /\ (targetMode = "always503" /\ opts.retries = {3}) =>
       /\ call[BG].attempts <= 4
       /\ call[BG].phase # "resolved"

C5_Witness == ExhaustionCase

\* C6: backoff schedule. The delay before retry n is baseDelay * 2^(n-1):
\* the first delay is the base delay, each later one twice its predecessor,
\* and with base delay 1000 the delays are 1000, 2000, 4000.
C6_BackoffSchedule ==
  LET d == call[BG].delays
      base == IF opts.retryDelay = {} THEN 1000 ELSE CHOOSE x \in opts.retryDelay : TRUE
  IN /\ Len(d) = call[BG].retryCount
     /\ Len(d) >= 1 => d[1] = base
     /\ \A n \in 2..Len(d) : d[n] = 2 * d[n - 1] /\ d[n] > d[n - 1]
     /\ base = 1000 => \A n \in 1..Len(d) : d[n] = <<1000, 2000, 4000>>[n]

C6_Witness ==
  /\ opts.retryDelay = {}
  /\ call[BG].delays = <<1000, 2000, 4000>>

\* C7: retry predicate. Under the default status set a failed attempt
\* satisfies the retry condition exactly if it has no response or its status
\* is one of 408, 429, 500, 502, 503, 504; an attempt is only ever retried if
\* it does, a failure that arrives while retries remain and does not is
\* rejected at once, so a first attempt failing with 400 or 404 is the only
\* attempt of its call.
C7_Retryable(s) == s = 0 \/ s \in {408, 429, 500, 502, 503, 504}

C7_RetryPredicate ==
  /\ \A s \in Outcomes \ {200} : retryCondition(s) <=> C7_Retryable(s)
  /\ call[BG].phase = "backoff" => C7_Retryable(call[BG].status)
  /\ (call[BG].phase = "rejected" /\ call[BG].retryCount < retries)
       => ~C7_Retryable(call[BG].status)
  /\ (call[BG].phase = "rejected" /\ ~C7_Retryable(call[BG].status)
        /\ call[BG].retryCount = 0)
       => call[BG].attempts = 1

\* A 404 on the first attempt was rejected although retries remained.
C7_Witness ==
  /\ call[BG].phase = "rejected"
  /\ call[BG].status = 404
  /\ call[BG].attempts = 1
  /\ retries = 3

\* C8: every 5xx failure is retried. A call is not rejected with a status in
\* 500..599 while retries remain.
C8_Retries5xx ==
  (call[BG].phase = "rejected" /\ call[BG].status >= 500 /\ call[BG].status <= 599)
    => call[BG].retryCount = retries

\* C9: breaker opens under load. With errorThresholdPercentage 50 and
\* volumeThreshold 10, once 10 calls were made through the client and at
\* least 5 of them failed, the breaker is open.
UnderLoad ==
  /\ breaker.exists
  /\ breaker.errorThresholdPercentage = 50
  /\ breaker.volumeThreshold = 10
  /\ clientCalls.total = 10
  /\ clientCalls.failed >= 5

C9_BreakerOpens ==
  UnderLoad => breaker.state = "open"

\* C10: open-breaker gate. While the breaker is open (as it is, by the rule
\* of C9, after 10 calls of which at least 5 failed) a call made through the
\* returned client makes no network attempt and is not retried.
C10_OpenBreakerGate ==
  (breaker.state = "open" \/ UnderLoad) =>
    (call[BG].phase \in {"ready", "inflight", "backoff"} => call[BG].attempts = 0)

\* C11: breaker recovery. Once the breaker was opened by load (10 calls, at
\* least 5 failed), a later call that reaches the network is the half_open
\* probe: the breaker is half-open while it is in flight, closed with zero
\* recorded failures after it succeeded, and open again after it failed.
ProbeSettled(failedBefore) ==
  /\ breaker.exists
  /\ breaker.errorThresholdPercentage = 50
  /\ breaker.volumeThreshold = 10
  /\ clientCalls.total = 11
  /\ clientCalls.failed >= failedBefore

C11_BreakerRecovery ==
  /\ (UnderLoad /\ call[BG].phase = "inflight") => breaker.state = "halfOpen"
  /\ (ProbeSettled(5) /\ call[BG].phase = "resolved")
       => (breaker.state = "closed" /\ breaker.failures = 0)
  /\ (ProbeSettled(6) /\ call[BG].phase = "rejected") => breaker.state = "open"

C13_Budget == IF opts.retries = {} THEN 3 ELSE CHOOSE n \in opts.retries : TRUE

C13_Settled(c) == c.phase \in {"resolved", "rejected"}

C13_RetryTransparency ==
  /\ [](/\ call[BG].phase = "resolved" =>
            /\ call[BG].status >= 200 /\ call[BG].status <= 299
            /\ call[BG].attempts = call[BG].retryCount + 1
        /\ (call[BG].phase = "rejected" /\ C7_Retryable(call[BG].status)) =>
            call[BG].attempts = 1 + C13_Budget
        /\ call[BG].attempts <= 1 + C13_Budget)
  /\ [][/\ C13_Settled(call[BG]) =>
            \/ call'[BG] = call[BG]
            \/ call'[BG].phase = "ready" /\ call'[BG].attempts = 0
        /\ clientCalls'.total # clientCalls.total =>
            /\ clientCalls'.total = clientCalls.total + 1
            /\ call[BG].phase = "inflight"
            /\ C13_Settled(call'[BG])
        /\ (~C13_Settled(call[BG]) /\ C13_Settled(call'[BG])) =>
            clientCalls'.total = clientCalls.total + 1]_vars

\* A call resolved on its third attempt, after two retried failures.
C13_Witness ==
  /\ call[BG].phase = "resolved"
  /\ call[BG].attempts = 3
  /\ call[BG].retryCount = 2

\* C14: missing context is not an error. An outbound call made outside every
\* runWithContext scope and outside every request carries no x-request-id on
\* any attempt, also while a request has its own context installed; it makes
\* its network attempts and is rejected only with a failure the target gave.
NoContextCall ==
  /\ scopes[BG] = <<>>
  /\ call[BG].attempts > 0

C14_MissingContext ==
  NoContextCall =>
    /\ call[BG].xRequestId = "undefined"
    /\ call[BG].firstXRequestId = "undefined"
    /\ \A l \in logs[BG] : l.correlationId \notin {"req-1", "uuid-A"}
    /\ call[BG].phase = "rejected" =>
         (call[BG].status \in LifecycleOutcomes \ {200})
    /\ call[BG].phase = "resolved" => call[BG].status = 200

\* Such a call was retried and resolved while request A had a context.
C14_Witness ==
  /\ NoContextCall
  /\ call[BG].phase = "resolved"
  /\ call[BG].attempts = 2
  /\ store["A"].correlationId = "req-1"

\* C18: nested runWithContext. In the extent of the runWithContext call at
\* depth d getRequestContext returns the context passed to that call; when an
\* inner extent has completed the enclosing extent sees its own context
\* again; outside every scope it returns undefined in the background and the
\* request's context in a request handler.
C18_Expected(t) ==
  IF scopes[t] # <<>>
  THEN [correlationId |-> "ctx-" \o ToString(Len(scopes[t])),
        traceId |-> "undefined", spanId |-> "undefined"]
  ELSE IF t \in Reqs /\ req[t].hasCtx
       THEN req[t].ctx
       ELSE [correlationId |-> "undefined", traceId |-> "undefined",
             spanId |-> "undefined"]

C18_NestedContext ==
  \A t \in {"A", BG} : getRequestContext(t) = C18_Expected(t)

\* The background is back in the outer extent after an inner one completed
\* (it made a call inside the inner extent), and request A's handler is
\* inside two scopes of its own.
C18_Witness ==
  /\ Len(scopes[BG]) = 1
  /\ \E l \in logs[BG] : l.correlationId = "ctx-2"
  /\ Len(scopes["A"]) = 2
  /\ req["A"].hasCtx

\* C15: response correlation header. From the end of onRequest on, the reply
\* of a non-excluded request carries x-request-id equal to the request's
\* correlation id (the inbound x-request-id if supplied, else the generated
\* identifier); the installed RequestContext holds the same value, and so do
\* the 'Request received' and 'Request completed' log lines, which a process
\* with a logger has written by then.
C15_PastOnRequest(r) ==
  Instrumented(r) /\ req[r].phase \notin {"idle", "arrived"}

C15_ResponseHeader ==
  \A r \in Reqs : C15_PastOnRequest(r) =>
    /\ req[r].replyXRequestId = CorrelationIdOf(r)
    /\ req[r].ctx.correlationId = CorrelationIdOf(r)
    /\ store[r].correlationId = CorrelationIdOf(r)
    /\ \A l \in logs[r] :
         l.msg \in {"Request received", "Request completed"} =>
           l.correlationId = CorrelationIdOf(r)
    /\ initialized => \E l \in logs[r] : l.msg = "Request received"
    /\ (initialized /\ req[r].responseDone > 0) =>
         \E l \in logs[r] : l.msg = "Request completed"

\* One finished request with an inbound id and one with a generated id.
C15_Witness ==
  /\ initialized
  /\ \A r \in Reqs : C15_PastOnRequest(r) /\ req[r].phase = "done"
                     /\ req[r].responseDone = 1
  /\ req["A"].replyXRequestId = "req-1"
  /\ req["B"].replyXRequestId = "uuid-B"

\* C16: excluded routes. For a request whose URL starts with /health the
\* plugin opens no span, adds no sample to the HTTP server instruments,
\* installs no context and writes no log line; each of its hooks that ran
\* called done once, also the terminal hooks that found no context.
C16_ExcludedUrl(r) == req[r].phase # "idle" /\ req[r].url[1] = "/health"

C17_ContextSurvives ==
  \A r \in Reqs : (req[r].hasCtx /\ req[r].phase = "handling") =>
    /\ getRequestContext(r) = req[r].ctx
    /\ call[r].attempts > 0 =>
         /\ call[r].xRequestId = call[r].firstXRequestId
         /\ call[r].xRequestId = req[r].ctx.correlationId
    /\ \A l \in logs[r] :
         l.msg \in {"Outbound HTTP error", "Retrying HTTP request"} =>
           l.correlationId = req[r].ctx.correlationId

\* Request A resumed after its backoff timer (second attempt in flight) while
\* request B, with another context, waits in its own backoff.
C17_Witness ==
  /\ req["A"].hasCtx /\ req["B"].hasCtx
  /\ req["A"].ctx.correlationId # req["B"].ctx.correlationId
  /\ call["A"].phase = "inflight" /\ call["A"].attempts = 2
  /\ call["B"].phase = "backoff"

\* C19: handler failure is observed, not altered. The step of the onError
\* hook calls done once, leaves the reply status, the reply headers and the
\* error as they were, and for a request with a context it records the
\* exception and the error status with the error's message on the span and
\* logs 'Request failed' at error level.
C19_ErrorObserved ==
  [][\A r \in Reqs :
       (req[r].phase = "erroring" /\ req'[r].phase # "erroring") =>
         /\ req'[r].phase = "errored"
         /\ req'[r].errorDone = req[r].errorDone + 1
         /\ req'[r].statusCode = req[r].statusCode
         /\ req'[r].replyXRequestId = req[r].replyXRequestId
         /\ req'[r].error = req[r].error
         /\ req[r].hasCtx =>
              /\ span'[r].exceptions = span[r].exceptions + 1
              /\ span'[r].status = "error"
              /\ span'[r].message = req[r].error
              /\ initialized =>
                   \E l \in logs'[r] :
                     l.msg = "Request failed" /\ l.level = "error"]_vars

\* The error hook has run for a request with a context; the reply status is
\* still the one the reply had before the failure.
C19_Witness ==
  \E r \in Reqs :
    /\ req[r].phase = "errored"
    /\ req[r].hasCtx
    /\ initialized
    /\ span[r].exceptions = 1
    /\ req[r].statusCode = 200

\* C20: telemetry failures are isolated. Also when the logger throws inside
\* a lifecycle hook or an interceptor, a finished request had done called by
\* its terminal hook, and a call is rejected only with a failure the target
\* gave to one of its network attempts.
C20_TelemetryIsolation ==
  /\ \A r \in Reqs :
       req[r].phase = "done" => req[r].responseDone + req[r].errorDone >= 1
  /\ call[BG].phase = "rejected" =>
       /\ call[BG].attempts >= 1
       /\ ~(call[BG].status >= 200 /\ call[BG].status <= 299)


\* C21: for a request whose handler raised an error, the span at the moment it
\* is closed has status error with the error's message, and the exception has
\* been recorded on it.
C21_ClosedErrorSpan ==
  \A r \in Reqs :
    (req[r].error # Undefined /\ req[r].hasSpan /\ span[r].ended >= 1)
      => /\ span[r].status = "error"
         /\ span[r].message = req[r].error
         /\ span[r].exceptions >= 1


\* Position of the first call of the named kind among the side effects es
\* (0 when there is none).
IndexOf(es, name) ==
  IF \E i \in DOMAIN es : es[i][1] = name
  THEN CHOOSE i \in DOMAIN es :
         es[i][1] = name /\ \A j \in DOMAIN es : es[j][1] = name => i <= j
  ELSE 0

\* The value given to the first call of the named kind.
ValueOf(es, name) == es[IndexOf(es, name)][2]

Completed(r) == req[r].hasCtx /\ req[r].completed >= 1

\* C22: on request completion the span status is ok if and only if the
\* response status code is below 400, otherwise error, and the ended span
\* carries the status code and the duration as attributes, both set before
\* the span was ended.
C22_CompletionSpan ==
  \A r \in Reqs :
    (Completed(r) /\ req[r].hasSpan) =>
      /\ span[r].ended >= 1
      /\ span[r].status = "ok" <=> req[r].statusCode < 400
      /\ span[r].status = "error" <=> req[r].statusCode >= 400
      /\ <<"http.status_code", req[r].statusCode>> \in span[r].attributes
      /\ <<"http.response_time_ms",
           ValueOf(events[r], "requestDuration.record")>> \in span[r].attributes
      /\ 0 < IndexOf(events[r], "span.setAttribute:http.status_code")
      /\ IndexOf(events[r], "span.setAttribute:http.status_code")
           < IndexOf(events[r], "span.end")
      /\ 0 < IndexOf(events[r], "span.setAttribute:http.response_time_ms")
      /\ IndexOf(events[r], "span.setAttribute:http.response_time_ms")
           < IndexOf(events[r], "span.end")

C22_Witness ==
  /\ Completed("A") /\ req["A"].statusCode = 404 /\ span["A"].status = "error"
  /\ span["A"].ended = 1
  /\ Completed("B") /\ req["B"].statusCode = 200 /\ span["B"].status = "ok"
  /\ \E d \in 1..MaxTime : <<"http.response_time_ms", d>> \in span["B"].attributes

\* C23: in the completion hook the 'Request completed' log and the request
\* counter and duration histogram updates all happen before span.end, and
\* the log, the histogram and the span attribute carry the same duration.
C23_CompletionOrder ==
  \A r \in Reqs :
    (Completed(r) /\ req[r].hasSpan) =>
      LET es == events[r]
          end == IndexOf(es, "span.end")
      IN /\ end > 0
         /\ \A name \in {"logger.info", "requestCounter.add",
                         "requestDuration.record"} :
              0 < IndexOf(es, name) /\ IndexOf(es, name) < end
         /\ ValueOf(es, "logger.info") = ValueOf(es, "requestDuration.record")
         /\ ValueOf(es, "logger.info")
              = ValueOf(es, "span.setAttribute:http.response_time_ms")
         /\ ValueOf(es, "logger.info") \in 0..MaxTime
         /\ req[r].startTime + ValueOf(es, "logger.info") <= now

C23_Witness ==
  \E r \in Reqs :
    /\ Completed(r) /\ req[r].hasSpan /\ span[r].ended = 1
    /\ req[r].startTime > 0
    /\ ValueOf(events[r], "logger.info") > 0
    /\ \E l \in logs[r] : l.msg = "Request completed"


OutboundMsgs ==
  {"Outbound HTTP request", "Outbound HTTP response", "Outbound HTTP error",
   "Retrying HTTP request"}

Logged(r, msg) == \E l \in logs[r] : l.msg = msg

\* A step in which the outbound call of request r is dispatched to the
\* network or writes a log line.
OutboundStep(r) ==
  \/ call'[r].attempts > call[r].attempts
  \/ \E l \in logs'[r] \ logs[r] : l.msg \in OutboundMsgs

\* C24: within one request 'Request received' is logged before any outbound
\* call of its handler is logged or sent, and every such call precedes the
\* 'Request completed' / 'Request failed' log of that request.
C24_EventOrder ==
  [][\A r \in Reqs :
       OutboundStep(r) =>
         /\ req[r].requestDone = 1
         /\ initialized => Logged(r, "Request received")
         /\ req[r].completed = 0 /\ req[r].failed = 0
         /\ ~Logged(r, "Request completed") /\ ~Logged(r, "Request failed")
         /\ ~Logged(r, "Request completed")' /\ ~Logged(r, "Request failed")'
    ]_vars

C24_Witness ==
  \E r \in Reqs :
    /\ req[r].handlerCalled
    /\ Logged(r, "Request received")
    /\ Logged(r, "Outbound HTTP error")
    /\ Logged(r, "Request failed")
    /\ Logged(r, "Request completed")


\* C25: every attempt of an outbound call (success, failure being retried,
\* final failure) adds one sample to the breaker's rolling statistics, so
\* the breaker has at least as many samples as the current call has made
\* attempts.
C25_OutcomeRecording ==
  breaker.exists => breaker.fires >= call[BG].attempts

\* C26: there is exactly one breaker state per downstream target: any two
\* clients created for the same service name hold the same breaker.
C26_OneBreakerPerTarget ==
  \A i, j \in DOMAIN clients :
    clients[i].serviceName = clients[j].serviceName
      => clients[i].breakerId = clients[j].breakerId

C28_SingleProbe ==
  UnderLoad => Cardinality({t \in Tasks : call[t].phase = "inflight"}) <= 1


\* C29: each non-excluded request that reaches the completion hook adds
\* exactly one sample to http.server.requests.total and one to
\* http.server.request.duration, labeled by method, route and status code;
\* http.server.requests.errors gets a sample if and only if the status code
\* is 400 or above. No other request adds a sample.
C29_ServerMetrics ==
  \A r \in Reqs :
    LET m == serverMetrics[r]
    IN IF Completed(r)
       THEN /\ ~excluded(req[r].url)
            /\ m.requests = 1
            /\ m.durations = 1
            /\ m.labels = {[method |-> req[r].method, route |-> req[r].url,
                            status_code |-> ToString(req[r].statusCode)]}
            /\ m.errors = (IF req[r].statusCode >= 400 THEN 1 ELSE 0)
       ELSE m = NoSamples

C29_Witness ==
  /\ Completed("A") /\ req["A"].statusCode = 404 /\ serverMetrics["A"].errors = 1
  /\ Completed("B") /\ req["B"].statusCode = 200 /\ serverMetrics["B"].errors = 0
  /\ serverMetrics["B"].requests = 1

\* The terminal hook lines of request r.
HookLines(r) ==
  {l \in logs[r] : l.msg \in {"Request completed", "Request failed"}}

\* C30: a request's context is read-only once installed. The correlationId,
\* traceId, spanId and startTime the onError and onResponse hooks observe
\* are the values onRequest created, and no request's hooks observe or
\* overwrite the context of another request.
C30_ContextReadOnly ==
  /\ [](\A r \in Reqs :
          req[r].hasCtx =>
            /\ req[r].ctx.correlationId = CorrelationIdOf(r)
            /\ req[r].ctx.traceId = span[r].traceId
            /\ req[r].ctx.spanId = span[r].spanId
            /\ \A l \in HookLines(r) :
                 /\ l.correlationId = req[r].ctx.correlationId
                 /\ l.traceId = req[r].ctx.traceId
                 /\ l.spanId = req[r].ctx.spanId
            /\ \A u \in Reqs \ {r} :
                 req[u].hasCtx =>
                   req[u].ctx.correlationId # req[r].ctx.correlationId)
  /\ [][\A r \in Reqs :
          /\ req[r].hasCtx =>
               /\ req'[r].hasCtx
               /\ req'[r].ctx = req[r].ctx
               /\ req'[r].startTime = req[r].startTime
          /\ (~req[r].hasCtx /\ req'[r].hasCtx) => req'[r].startTime = now
          /\ req'[r].completed > req[r].completed =>
               ValueOf(events'[r], "logger.info") = now - req[r].startTime
       ]_vars

C30_Witness ==
  /\ Completed("A") /\ Completed("B")
  /\ req["A"].failed = 1
  /\ req["A"].startTime < req["B"].startTime
  /\ HookLines("A") # {} /\ HookLines("B") # {}
  /\ ValueOf(events["A"], "logger.info") > ValueOf(events["B"], "logger.info")


\* C31: every log line written while a non-excluded request is handled
\* (lifecycle, handler and outbound-call lines) carries the traceId and the
\* spanId of the span the plugin opened for that request.
C31_LogSpanIds ==
  \A r \in Reqs :
    (Instrumented(r) /\ req[r].hasSpan) =>
      \A l \in logs[r] :
        /\ l.traceId = span[r].traceId
        /\ l.spanId = span[r].spanId


\* C32: bounded retries. Whatever the target answers, a client call makes at
\* most 1 + retries network attempts (retries defaults to 3) and every call
\* that was started settles.
C32_BoundedRetries ==
  /\ [](call[BG].attempts <= 1 + Nullish(opts.retries, DefaultRetries))
  /\ (call[BG].phase \in {"ready", "inflight", "backoff"})
       ~> (call[BG].phase \in {"resolved", "rejected"})

\* A call under the default options gave up after its fourth attempt.
C32_Witness ==
  /\ opts.retries = {}
  /\ call[BG].phase = "rejected"
  /\ call[BG].attempts = 1 + DefaultRetries
  /\ call[BG].retryCount = DefaultRetries


\* An attempt of task t's call is answered in this step.
AttemptSettles(t) == call[t].phase = "inflight" /\ call'[t].phase # "inflight"

\* C33: per-attempt client metrics. Every network attempt of an outbound
\* call, retried attempts included, adds exactly one sample to
\* http.client.requests.total and one to http.client.request.duration, and
\* one to http.client.requests.errors exactly when the attempt failed.
C33_AttemptMetrics ==
  /\ [](LET c == call[BG]
        IN c.phase # "none" =>
             /\ c.metrics.requests
                  = c.attempts - (IF c.phase = "inflight" THEN 1 ELSE 0)
             /\ c.metrics.durations = c.metrics.requests
             /\ c.metrics.errors
                  = c.retryCount + (IF c.phase = "rejected" THEN 1 ELSE 0))
  /\ [][LET m == call[BG].metrics
            n == call'[BG].metrics
        IN IF AttemptSettles(BG)
           THEN /\ n.requests = m.requests + 1
                /\ n.durations = m.durations + 1
                /\ n.errors = m.errors + (IF call'[BG].status \in 200..299
                                          THEN 0 ELSE 1)
           ELSE n = m \/ (call'[BG].phase = "ready" /\ n = NoSamples)
       ]_vars

\* A call that failed twice and then succeeded: three samples, two errors.
C33_Witness ==
  /\ call[BG].phase = "resolved"
  /\ call[BG].attempts = 3
  /\ call[BG].metrics.requests = 3
  /\ call[BG].metrics.durations = 3
  /\ call[BG].metrics.errors = 2


\* C34: each invocation of the onRequest, onResponse and onError hooks calls
\* its done callback exactly once on every path (excluded route, missing
\* context, normal path), never zero times and never twice.
C34_DoneOnce ==
  [][\A r \in Reqs :
       /\ req'[r].requestDone = req[r].requestDone
            + (IF req[r].phase = "arrived" /\ req'[r].phase # "arrived"
               THEN 1 ELSE 0)
       /\ req'[r].errorDone = req[r].errorDone
            + (IF req[r].phase = "erroring" /\ req'[r].phase # "erroring"
               THEN 1 ELSE 0)
       /\ req'[r].responseDone = req[r].responseDone
            + (IF req[r].phase = "replying" /\ req'[r].phase # "replying"
               THEN 1 ELSE 0)
    ]_vars

\* An excluded request that completed without context, and an instrumented
\* one that went through all three hooks.
C34_Witness ==
  /\ req["A"].phase = "done" /\ ~req["A"].hasCtx
  /\ req["A"].requestDone = 1 /\ req["A"].responseDone = 1
  /\ req["B"].phase = "done" /\ req["B"].hasCtx
  /\ req["B"].requestDone = 1 /\ req["B"].errorDone = 1
  /\ req["B"].responseDone = 1


\* What a terminal hook leaves behind for request r: a log line, a metric
\* sample, or a change to a span.
TerminalEffects(r) ==
  \/ HookLines(r) # {}
  \/ serverMetrics[r] # NoSamples
  \/ events[r] # <<>>
  \/ span[r].status # "unset" \/ span[r].exceptions > 0 \/ span[r].ended > 0
  \/ req[r].completed > 0 \/ req[r].failed > 0

\* C35: hook consistency. onResponse and onError log, record metrics or
\* touch a span for a request if and only if onRequest installed a context
\* and a span for that request: an uninstrumented request gets nothing from
\* the terminal hooks, and an instrumented one is not skipped by them.
C35_HookConsistency ==
  \A r \in Reqs :
    /\ (req[r].hasCtx <=> req[r].hasSpan) /\ (req[r].hasSpan <=> span[r].opened)
    /\ req[r].hasCtx <=> (req[r].requestDone = 1 /\ ~excluded(req[r].url))
    /\ TerminalEffects(r) => req[r].hasCtx
    /\ (req[r].hasCtx /\ req[r].errorDone >= 1) =>
         /\ req[r].failed = req[r].errorDone
         /\ span[r].exceptions = req[r].errorDone
         /\ initialized => Logged(r, "Request failed")
    /\ (req[r].hasCtx /\ req[r].responseDone >= 1) =>
         /\ req[r].completed = req[r].responseDone
         /\ serverMetrics[r].requests = req[r].responseDone
         /\ span[r].ended = req[r].responseDone
         /\ initialized => Logged(r, "Request completed")

\* An excluded request went through the error and the completion hook
\* untouched while an instrumented one got both.
C35_Witness ==
  /\ initialized
  /\ excluded(req["A"].url) /\ req["A"].errorDone = 1 /\ req["A"].responseDone = 1
  /\ ~TerminalEffects("A")
  /\ req["B"].hasCtx /\ req["B"].errorDone = 1 /\ req["B"].responseDone = 1
  /\ TerminalEffects("B")


\* C36: init is idempotent. Once an init call has completed, a later init
\* call, also one after shutdown, replaces neither the SDK, the meter
\* provider, the logger nor the recorded service name; at most one SDK is
\* started per process.
C36_InitIdempotent ==
  /\ [](boot.sdkStarts <= 1 /\ boot.meterProviders <= 1)
  /\ [][initialized =>
          /\ initialized'
          /\ logLevel' = logLevel
          /\ boot'.serviceName = boot.serviceName
          /\ boot'.sdkStarts = boot.sdkStarts
          /\ boot'.meterProviders = boot.meterProviders
          /\ "OpenTelemetry initialized" \notin {l.msg : l \in logs'[BG] \ logs[BG]}
       ]_vars

\* init was called again after a shutdown and skipped.
C36_Witness ==
  /\ boot.initCalls = MaxInitCalls
  /\ boot.shutdownCalls >= 1
  /\ boot.console = "Already initialized, skipping"
  /\ boot.sdkStarts = 1
  /\ boot.serviceName = "report-service"
  /\ logLevel = "debug"

\* C37: shutdown never rejects. Before init it does nothing; when the meter
\* provider's or the SDK's shutdown fails the error is caught and logged and
\* the returned promise still resolves.
C37_ShutdownResolves ==
  /\ [](/\ boot.shutdownPromise \in {"none", "resolved"}
        /\ boot.shutdownCalls > 0 => boot.shutdownPromise = "resolved"
        /\ ~initialized =>
             boot.meterProviderShutdowns = 0 /\ boot.sdkShutdowns = 0)
  /\ [][boot'.shutdownCalls > boot.shutdownCalls =>
          /\ boot'.shutdownPromise = "resolved"
          /\ ~initialized =>
               boot' = [boot EXCEPT !.shutdownCalls = @ + 1,
                                    !.shutdownPromise = "resolved"]
          /\ initialized =>
               /\ boot'.meterProviderShutdowns = boot.meterProviderShutdowns + 1
               /\ boot'.console \in {"Error during shutdown",
                                     "OTEL shutdown complete"}
               /\ boot'.sdkShutdowns = boot.sdkShutdowns
                    => boot'.console = "Error during shutdown"
       ]_vars

\* A shutdown whose meter provider failed: logged, SDK shutdown skipped,
\* promise resolved.
C37_Witness ==
  /\ initialized
  /\ boot.console = "Error during shutdown"
  /\ boot.sdkShutdowns < boot.meterProviderShutdowns
  /\ boot.shutdownPromise = "resolved"


\* C38: before init has completed the logger methods are no-ops that do not
\* throw, so in an uninitialized process nothing is logged and every hook and
\* interceptor that logs runs to completion: a finished request had done
\* called and its metrics and span completed, an attempt was dispatched for
\* every call, and a call settles with what the target answered.
C38_LoggerNoOp ==
  ~initialized =>
    /\ \A t \in Tasks : logs[t] = {}
    /\ \A r \in Reqs :
         req[r].phase = "done" =>
           /\ req[r].responseDone = 1
           /\ req[r].hasCtx =>
                /\ req[r].completed = 1
                /\ serverMetrics[r].requests = 1
                /\ span[r].ended = 1
    /\ call[BG].phase \in {"inflight", "backoff", "resolved", "rejected"}
         => call[BG].attempts >= 1
    /\ call[BG].phase = "resolved" => call[BG].status \in 200..299
    /\ call[BG].phase = "rejected" => call[BG].status \notin 200..299

\* An uninitialized process completed an instrumented request and a call.
C38_Witness ==
  /\ ~initialized
  /\ req["A"].phase = "done" /\ req["A"].hasCtx /\ req["A"].completed = 1
  /\ call[BG].phase = "resolved"
  /\ clientCalls.failed >= 1


\* C39: every RequestContext installed by onRequest has a non-empty
\* correlationId: an inbound x-request-id is kept, an absent or empty one is
\* replaced by a generated identifier, and two requests without an inbound id
\* never share a generated correlationId.
C39_CorrelationId ==
  \A r \in Reqs :
    req[r].hasCtx =>
      LET id == req[r].ctx.correlationId
          inbound == req[r].xRequestId
      IN /\ id # Undefined /\ id # ""
         /\ store[r].correlationId = id
         /\ req[r].replyXRequestId = id
         /\ inbound \notin {Undefined, ""} => id = inbound
         /\ inbound \in {Undefined, ""} =>
              /\ id \notin {"req-1", "req-2"}
              /\ \A u \in Reqs \ {r} :
                   req[u].hasCtx => req[u].ctx.correlationId # id

\* One request came with an empty x-request-id and one without the header;
\* both were given a context and logged with it.
C39_Witness ==
  /\ req["A"].hasCtx /\ req["A"].xRequestId = ""
  /\ req["B"].hasCtx /\ req["B"].xRequestId = Undefined
  /\ req["A"].ctx.correlationId = "uuid-A"
  /\ req["B"].ctx.correlationId = "uuid-B"
  /\ \E l \in logs["A"] : l.msg = "Fetching report" /\ l.correlationId = "uuid-A"

============================================================================
